---- MODULE Spec2Model ----
(***************************************************************************)
(* Model of src/src/main.cpp: the image slideshow / heart animation for a  *)
(* NodeMCU with an SPI TFT display and an SD card.                         *)
(*                                                                         *)
(* Two contexts run: the main context (setup(), then loop() for ever) and  *)
(* the interrupt handler modeChangeInterupt().  pc is the position of the  *)
(* main context; the handler is one atomic step that may run between any   *)
(* two steps of the main context once it is attached.                      *)
(*                                                                         *)
(* Time: 'now' is the time in milliseconds since millis() was last 0, and   *)
(* millis() returns it modulo 2^32; a timestamp the program stores is kept *)
(* as the time at which it was read.  Plain statements take no             *)
(* time; time passes while an image is drawn and while the main context    *)
(* yields in a polling loop.  A yield that advances the clock by d > 0     *)
(* stands for d milliseconds of polling during which nothing else happens, *)
(* so a loop that polls the flag takes such a step only while the flag is  *)
(* down; the handler may run right after it.                               *)
(***************************************************************************)
EXTENDS Integers, Sequences, FiniteSets

\* ---------------------------------------------------------------- constants
screenWidth == 240
screenLength == 320
slideshowRefreshTime == 4000
maxStates == 2
debounceTime == 50
spriteSize == 32
maxSprites == 10
messageHeight == 100
messageY == 220
refreshTime == 500
xBorderSprite == screenWidth - spriteSize
\* Mutant of yBorderSprite: the height of the message sprite is not taken off.
yBorderSprite_NoMessage == screenLength - spriteSize
yBorderSprite == screenLength - spriteSize - messageHeight

\* ------------------------------------------------------------------- bounds
\* Number of entries of the root directory of the card: 1..MaxEntries.
MaxEntries == 2
\* Number of times the interrupt fires in one behaviour.
MaxRaises == 2
\* Number of steps that advance the clock in one behaviour.
MaxAdvances == 3
\* random(maxSprites) is drawn from the first NumPick slots.
NumPick == 2

\* Durations of one draw call and of one stretch of yielding, in milliseconds.
DrawTimes == {0, debounceTime \div 2}
YieldTimes == {0, refreshTime, slideshowRefreshTime}

\* The pairs <<random(xbig), random(ybig)>> that are drawn: the corners of the
\* range, and the x values next to the collision distance of spriteSize + 1.
PosSamples(xbig, ybig) ==
  { <<0, 0>>, <<spriteSize + 1, 0>>, <<spriteSize + 2, 0>>,
    <<0, ybig - 1>>, <<xbig - 1, ybig - 1>> }

VARIABLES
  pc,                 \* position of the main context
  now,                \* the time; millis() is U32(now)
  advances,           \* number of clock advances so far
  attached,           \* attachInterrupt() has run
  changeButtonState,  \* volatile bool, written by the handler
  currentState,       \* uint8_t
  prevStateChange,    \* uint32_t
  dirLen,             \* number of entries of the root directory
  entry,              \* displayAllImagesDir: index of the open entry (> dirLen: none)
  time_1,             \* displayAllImagesDir: uint32_t time_1
  posXArr, posYArr, onScreen, \* patternMode: the slots
  time1,              \* patternMode: uint32_t time1
  spritePick, xPos, yPos, collision, i, \* patternMode: locals of one tick
  errorShown,         \* number of times errorMode() rendered its message
  shown,              \* history: <<entry, time>> of each display of this slideshow run
  raises,             \* history: number of raises of the flag
  lastRaise,          \* history: the time of the last raise
  burst,              \* history: the last two raises were less than debounceTime apart
  sinceOlder,         \* history: transitions accepted since the raise before the last one
  sinceNewer,         \* history: transitions accepted since the last raise
  unseen,             \* history: a raise that no read of the main context has seen yet
  raisedInSearch,     \* history: the flag was raised while the collision search was active
  lastPick, lastBefore, \* history: slot of the last completed tick and its visibility before it
  rerolled,           \* history: the search has re-rolled and yield() has not run since
  hearts,             \* the screen, by the draw calls issued: positions of the heart
                      \* sprites drawn and not covered since
  stat                \* history: ImageReturnCode of the image call of the last step of the
                      \* main context, NoCall if that step made none

vars == <<pc, now, advances, attached, changeButtonState, currentState,
          prevStateChange, dirLen, entry, time_1, posXArr, posYArr, onScreen,
          time1, spritePick, xPos, yPos, collision, i, errorShown,
          shown, raises, lastRaise, burst, sinceOlder, sinceNewer, unseen,
          raisedInSearch, lastPick, lastBefore, rerolled, hearts, stat>>

loopVars == <<currentState, prevStateChange>>
dirVars == <<entry, time_1, shown>>
slotVars == <<posXArr, posYArr, onScreen>>
tickVars == <<spritePick, xPos, yPos, collision, i>>
patVars == <<posXArr, posYArr, onScreen, time1, spritePick, xPos, yPos,
             collision, i, raisedInSearch, lastPick, lastBefore, rerolled,
             hearts>>
isrHist == <<raises, lastRaise, burst, unseen>>
changes == <<sinceOlder, sinceNewer>>
clockVars == <<now, advances>>

Slots == 0 .. (maxSprites - 1)

\* The status an image call returns: success or an error.  NoCall is not a
\* status: it marks a step without an image call.
ImageReturnCode == {"IMAGE_SUCCESS", "IMAGE_ERR_FORMAT"}
NoCall == "none"
ZeroArr == [s \in Slots |-> 0]
FalseArr == [s \in Slots |-> FALSE]

\* ------------------------------------------------------------------ helpers
\* Times are counted in milliseconds from an instant at which millis() is 0:
\* the boot, or a wrap of the counter; a time before that instant is negative.
\* A uint32_t is the pair <<high half, low half>> of its 16-bit halves, and
\* U32(t) is the value millis() has at time t.
Half == 65536
U32(t) == <<(t \div Half) % Half, t % Half>>

\* a - b on uint32_t: the difference modulo 2^32, with the borrow.
Sub32(a, b) ==
  LET lo == a[2] - b[2]
      hi == a[1] - b[1] - (IF lo < 0 THEN 1 ELSE 0)
  IN <<hi % Half, lo % Half>>

\* a >= b on uint32_t.
Ge32(a, b) == (a[1] > b[1]) \/ (a[1] = b[1] /\ a[2] >= b[2])

\* Mutant of ElapsedAtLeast: millis() >= since + k, the deadline form.
ElapsedAtLeast_Deadline(since, k) ==
  Ge32(U32(now), U32(since + k))

\* millis() - since >= k: the subtraction on uint32_t, the int k converted
\* to unsigned long (lines 107, 120, 159, 250).
ElapsedAtLeast(since, k) ==
  Ge32(Sub32(U32(now), U32(since)), U32(k))

\* The clock after d more milliseconds; d > 0 uses one of the MaxAdvances.
CanAdvance(d) == (d = 0) \/ (advances < MaxAdvances)
AdvancedNow(d) == now + d
AdvancedCount(d) == IF d = 0 THEN advances ELSE advances + 1

\* A stretch of d milliseconds of polling the flag: see the head of the module.
CanPoll(d) == CanAdvance(d) /\ ((d = 0) \/ ~changeButtonState)

\* The main context reads changeButtonState.
SeenAfterRead == IF changeButtonState THEN FALSE ELSE unseen

\* ---------------------------------------------------------------- interrupt
\* modeChangeInterupt(): changeButtonState = true.
modeChangeInterupt ==
  /\ attached
  /\ raises < MaxRaises
  /\ changeButtonState' = TRUE
  /\ raises' = raises + 1
  /\ lastRaise' = now
  /\ burst' = (raises > 0 /\ now - lastRaise < debounceTime)
  /\ sinceOlder' = sinceNewer
  /\ sinceNewer' = 0
  /\ unseen' = TRUE
  /\ raisedInSearch' = (raisedInSearch \/ pc \in {"pm_do", "pm_for", "pm_while"})
  /\ UNCHANGED <<stat, hearts, pc, clockVars, attached, loopVars, dirLen, dirVars, slotVars,
                 time1, tickVars, errorShown, lastPick, lastBefore, rerolled>>

\* Mutant of Setup: after errorMode() setup() goes on instead of idling.
Setup_FallsThrough ==
  /\ pc = "setup"
  /\ \E ok \in BOOLEAN :
       IF ok
       THEN /\ attached' = TRUE
            /\ pc' = "loop"
            /\ UNCHANGED errorShown
       ELSE /\ errorShown' = errorShown + 1
            /\ pc' = "loop"
            /\ attached' = TRUE
  /\ UNCHANGED <<stat, clockVars, changeButtonState, loopVars, dirLen, dirVars,
                 patVars, isrHist, changes>>

\* -------------------------------------------------------------------- setup
\* setup(): SD.begin() fails: errorMode() and the idle loop; else attach.
Setup ==
  /\ pc = "setup"
  /\ \E ok \in BOOLEAN :
       IF ok
       THEN /\ attached' = TRUE
            /\ pc' = "loop"
            /\ UNCHANGED errorShown
       ELSE /\ errorShown' = errorShown + 1
            /\ pc' = "halt"
            /\ UNCHANGED attached
  /\ UNCHANGED <<stat, clockVars, changeButtonState, loopVars, dirLen, dirVars,
                 patVars, isrHist, changes>>

\* setup(): while(true){ yield(); } after errorMode().
HaltYield ==
  /\ pc = "halt"
  /\ \E d \in YieldTimes :
       /\ CanAdvance(d)
       /\ now' = AdvancedNow(d)
       /\ advances' = AdvancedCount(d)
  /\ UNCHANGED <<stat, pc, attached, changeButtonState, loopVars, dirLen, dirVars,
                 patVars, errorShown, isrHist, changes>>

\* --------------------------------------------------------------------- loop
\* loop(): the test of line 250.
DebounceTest == changeButtonState /\ ElapsedAtLeast(prevStateChange, debounceTime)

LoopTest ==
  /\ pc = "loop"
  /\ pc' = IF DebounceTest THEN "accept" ELSE "reject"
  /\ unseen' = SeenAfterRead
  /\ sinceOlder' = IF DebounceTest THEN sinceOlder + 1 ELSE sinceOlder
  /\ sinceNewer' = IF DebounceTest THEN sinceNewer + 1 ELSE sinceNewer
  /\ UNCHANGED <<stat, clockVars, attached, changeButtonState, loopVars, dirLen,
                 dirVars, patVars, errorShown, raises, lastRaise, burst>>

\* Mutant of NextState: no wrap at maxStates.
NextState_NoWrap(s) ==
  (s + 1) % 256

\* currentState++ on uint8_t, then the wrap at maxStates.
NextState(s) ==
  LET inc == (s + 1) % 256 IN IF inc >= maxStates THEN 0 ELSE inc

\* loop(): the then-branch, lines 251-258.
LoopAccept ==
  /\ pc = "accept"
  /\ currentState' = NextState(currentState)
  /\ changeButtonState' = FALSE
  /\ prevStateChange' = now
  /\ pc' = "switch"
  /\ UNCHANGED <<stat, clockVars, attached, dirLen, dirVars, patVars, errorShown,
                 isrHist, changes>>

\* Mutant of LoopReject: the else-branch does not clear the flag.
LoopReject_KeepsFlag ==
  /\ pc = "reject"
  /\ pc' = "switch"
  /\ UNCHANGED <<stat, clockVars, attached, changeButtonState, loopVars, dirLen,
                 dirVars, patVars, errorShown, isrHist, changes>>

\* loop(): the else-branch, line 260.
LoopReject ==
  /\ pc = "reject"
  /\ changeButtonState' = FALSE
  /\ pc' = "switch"
  /\ UNCHANGED <<stat, clockVars, attached, loopVars, dirLen, dirVars, patVars,
                 errorShown, isrHist, changes>>

\* loop(): switch (currentState), lines 264-275.
SwitchTarget(s) ==
  CASE s = 0 -> "ss_open"
    [] s = 1 -> "pm_enter"
    [] OTHER -> "ss_default"

LoopSwitch ==
  /\ pc = "switch"
  /\ pc' = SwitchTarget(currentState)
  /\ UNCHANGED <<stat, clockVars, attached, changeButtonState, loopVars, dirLen,
                 dirVars, patVars, errorShown, isrHist, changes>>

\* ---------------------------------------------------------------- slideshow
\* while(entry), line 100: the body runs while an entry is open.
WhileEntry(e) == IF e <= dirLen THEN "ss_poll" ELSE "ss_last"

\* displayAllImagesDir(), lines 89-99: open the directory, read the clock,
\* draw the first entry, open the next one.
SSOpen ==
  /\ pc \in {"ss_open", "ss_default"}
  /\ \E d \in DrawTimes :
       /\ CanAdvance(d)
       /\ now' = AdvancedNow(d)
       /\ advances' = AdvancedCount(d)
  /\ time_1' = now
  /\ shown' = << <<1, now>> >>
  /\ entry' = 2
  /\ pc' = WhileEntry(2)
  /\ stat' \in ImageReturnCode
  /\ UNCHANGED <<attached, changeButtonState, loopVars, dirLen, patVars,
                 errorShown, isrHist, changes>>

\* Mutant of SSPoll: a picture that fails to draw ends the slideshow.
SSPoll_StopsOnError ==
  /\ pc = "ss_poll"
  /\ unseen' = SeenAfterRead
  /\ IF changeButtonState
     THEN /\ pc' = "ss_ret"
          /\ stat' = NoCall
          /\ UNCHANGED <<clockVars, dirVars>>
     ELSE IF ElapsedAtLeast(time_1, slideshowRefreshTime)
     THEN /\ \E d \in DrawTimes :
               /\ CanAdvance(d)
               /\ now' = AdvancedNow(d)
               /\ advances' = AdvancedCount(d)
               /\ time_1' = AdvancedNow(d)
          /\ stat' \in ImageReturnCode
          /\ shown' = Append(shown, <<entry, now>>)
          /\ entry' = entry + 1
          /\ pc' = IF stat' = "IMAGE_SUCCESS" THEN "ss_yield" ELSE "ss_ret"
     ELSE /\ pc' = "ss_yield"
          /\ stat' = NoCall
          /\ UNCHANGED <<clockVars, dirVars>>
  /\ UNCHANGED <<attached, changeButtonState, loopVars, dirLen, patVars,
                 errorShown, raises, lastRaise, burst, changes>>

\* Lines 103-115: one iteration of while(entry) up to its yield().
SSPoll ==
  /\ pc = "ss_poll"
  /\ unseen' = SeenAfterRead
  /\ IF changeButtonState
     THEN /\ pc' = "ss_ret"
          /\ stat' = NoCall
          /\ UNCHANGED <<clockVars, dirVars>>
     ELSE IF ElapsedAtLeast(time_1, slideshowRefreshTime)
     THEN /\ \E d \in DrawTimes :
               /\ CanAdvance(d)
               /\ now' = AdvancedNow(d)
               /\ advances' = AdvancedCount(d)
               /\ time_1' = AdvancedNow(d)
          /\ stat' \in ImageReturnCode
          /\ shown' = Append(shown, <<entry, now>>)
          /\ entry' = entry + 1
          /\ pc' = "ss_yield"
     ELSE /\ pc' = "ss_yield"
          /\ stat' = NoCall
          /\ UNCHANGED <<clockVars, dirVars>>
  /\ UNCHANGED <<attached, changeButtonState, loopVars, dirLen, patVars,
                 errorShown, raises, lastRaise, burst, changes>>

\* Line 116 and the next test of while(entry).
SSYield ==
  /\ pc = "ss_yield"
  /\ \E d \in YieldTimes :
       /\ CanPoll(d)
       /\ now' = AdvancedNow(d)
       /\ advances' = AdvancedCount(d)
  /\ pc' = WhileEntry(entry)
  /\ stat' = NoCall
  /\ UNCHANGED <<attached, changeButtonState, loopVars, dirLen, dirVars,
                 patVars, errorShown, isrHist, changes>>

\* Mutant of SSLast: no wait for the last picture.
SSLast_NoWait ==
  /\ pc = "ss_last"
  /\ pc' = "ss_ret"
  /\ stat' = NoCall
  /\ UNCHANGED <<clockVars, attached, changeButtonState, loopVars, dirLen,
                 dirVars, patVars, errorShown, isrHist, changes>>

\* Line 120: the test of the wait for the last picture.
SSLast ==
  /\ pc = "ss_last"
  /\ pc' = IF ElapsedAtLeast(time_1, slideshowRefreshTime)
           THEN "ss_ret" ELSE "ss_last_yield"
  /\ stat' = NoCall
  /\ UNCHANGED <<clockVars, attached, changeButtonState, loopVars, dirLen,
                 dirVars, patVars, errorShown, isrHist, changes>>

\* Line 121.
SSLastYield ==
  /\ pc = "ss_last_yield"
  /\ \E d \in YieldTimes :
       /\ CanAdvance(d)
       /\ now' = AdvancedNow(d)
       /\ advances' = AdvancedCount(d)
  /\ pc' = "ss_last"
  /\ UNCHANGED <<stat, attached, changeButtonState, loopVars, dirLen, dirVars,
                 patVars, errorShown, isrHist, changes>>

\* Mutant of SSReturn: the slideshow clears the flag it has seen before it returns.
SSReturn_ClearsFlag ==
  /\ pc = "ss_ret"
  /\ pc' = "loop"
  /\ entry' = 0
  /\ time_1' = 0
  /\ shown' = <<>>
  /\ changeButtonState' = FALSE
  /\ UNCHANGED <<stat, clockVars, attached, loopVars, dirLen, patVars, errorShown,
                 isrHist, changes>>

\* displayAllImagesDir() returns to loop(); its locals end.
SSReturn ==
  /\ pc = "ss_ret"
  /\ pc' = "loop"
  /\ entry' = 0
  /\ time_1' = 0
  /\ shown' = <<>>
  /\ UNCHANGED <<stat, clockVars, attached, changeButtonState, loopVars, dirLen,
                 patVars, errorShown, isrHist, changes>>

\* ------------------------------------------------------------------ pattern
\* random(howbig) of the Arduino core: a value of 0 .. howbig-1.
random(howbig) == IF howbig = 0 THEN {0} ELSE 0 .. (howbig - 1)

\* Mutant of Candidates: random() returns 0 every time.
Candidates_Origin == {<<0, 0>>}

\* Lines 170-171 and 189-190: xPos = random(xBorderSprite) and
\* yPos = random(yBorderSprite).
Candidates ==
  PosSamples(xBorderSprite, yBorderSprite)
    \cap (random(xBorderSprite) \X random(yBorderSprite))

\* Lines 183 and 185, in int: the candidate is within spriteSize+1 of p.
Near(c, p) == ~((c < p - spriteSize - 1) \/ (c > p + spriteSize + 1))

\* Mutant of Cleared: the clear sprite is drawn, the slot stays marked.
Cleared_StillMarked(k) == onScreen

\* Line 167: onScreen[spritePick] = false.
Cleared(k) == [onScreen EXCEPT ![k] = FALSE]

\* Line 200: onScreen[spritePick] = true.
Loaded(k) == [onScreen EXCEPT ![k] = TRUE]

\* Two sprites of spriteSize x spriteSize drawn at p and q share a pixel.
Covers(p, q) ==
  /\ p[1] < q[1] + spriteSize /\ q[1] < p[1] + spriteSize
  /\ p[2] < q[2] + spriteSize /\ q[2] < p[2] + spriteSize

\* Mutant of ClearAt: the clear sprite is drawn at the origin.
ClearAt_Origin(k) == <<0, 0>>

\* Line 166: the clear sprite is drawn at (posXArr[spritePick], posYArr[spritePick]).
ClearAt(k) == <<posXArr[k], posYArr[k]>>

\* The screen after a clear sprite is drawn at p (line 166).
Erased(scr, p) == {h \in scr : ~Covers(p, h)}

\* The screen after a heart sprite is drawn at p (line 202).
HeartDrawn(scr, p) == {h \in scr : ~Covers(p, h)} \cup {p}

\* Lines 180-181: the scan for(i = 0; i < maxSprites; i++) from index 'from'
\* on.  An iteration for a slot that is not on the screen does nothing, so
\* the scan is taken forward to the next slot on the screen, or to its end.
NextOnScreen(from) ==
  LET on == {s \in Slots : s >= from /\ onScreen[s]}
  IN IF on = {} THEN maxSprites
     ELSE CHOOSE s \in on : \A t \in on : s <= t
ForOrWhile(next) == IF next < maxSprites THEN "pm_for" ELSE "pm_while"

\* Line 134: tft.fillScreen(BLACK).
PMEnter ==
  /\ pc = "pm_enter"
  /\ \E d \in DrawTimes :
       /\ CanAdvance(d)
       /\ now' = AdvancedNow(d)
       /\ advances' = AdvancedCount(d)
  /\ pc' = "pm_msg"
  /\ hearts' = {}
  /\ UNCHANGED <<stat, attached, changeButtonState, loopVars, dirLen, dirVars,
                 slotVars, time1, tickVars, raisedInSearch, lastPick,
                 lastBefore, rerolled, errorShown, isrHist, changes>>

\* Lines 135-146: draw the message, initialise the slots, read the clock.
PMMessage ==
  /\ pc = "pm_msg"
  /\ \E d \in DrawTimes :
       /\ CanAdvance(d)
       /\ now' = AdvancedNow(d)
       /\ advances' = AdvancedCount(d)
       /\ time1' = AdvancedNow(d)
  /\ posXArr' = ZeroArr
  /\ posYArr' = ZeroArr
  /\ onScreen' = FalseArr
  /\ pc' = "pm_top"
  /\ stat' \in ImageReturnCode
  /\ UNCHANGED <<hearts, attached, changeButtonState, loopVars, dirLen, dirVars,
                 tickVars, raisedInSearch, lastPick, lastBefore, rerolled,
                 errorShown, isrHist, changes>>

\* Line 153: yield() at the top of while(true).
PMYield ==
  /\ pc = "pm_top"
  /\ \E d \in YieldTimes :
       /\ CanPoll(d)
       /\ now' = AdvancedNow(d)
       /\ advances' = AdvancedCount(d)
  /\ pc' = "pm_check"
  /\ rerolled' = FALSE
  /\ stat' = NoCall
  /\ UNCHANGED <<hearts, attached, changeButtonState, loopVars, dirLen, dirVars,
                 slotVars, time1, tickVars, raisedInSearch, lastPick,
                 lastBefore, errorShown, isrHist, changes>>

\* Lines 155-159: the flag check and the test of the refresh time.
PMCheck ==
  /\ pc = "pm_check"
  /\ unseen' = SeenAfterRead
  /\ pc' = IF changeButtonState THEN "pm_ret"
           ELSE IF ElapsedAtLeast(time1, refreshTime) THEN "pm_pick"
           ELSE "pm_top"
  /\ UNCHANGED <<stat, clockVars, attached, changeButtonState, loopVars, dirLen,
                 dirVars, patVars, errorShown, raises, lastRaise, burst, changes>>

\* Lines 162-171: pick a slot; clear it if it is on the screen (164-167 and
\* 206), else draw the first candidate position.  The locals of a tick
\* (spritePick, xPos, yPos, collision, i) end with the tick.
PMPick ==
  /\ pc = "pm_pick"
  /\ \E k \in random(maxSprites) \cap (0 .. (NumPick - 1)) :
       /\ IF onScreen[k]
          THEN /\ \E d \in DrawTimes :
                    /\ CanAdvance(d)
                    /\ now' = AdvancedNow(d)
                    /\ advances' = AdvancedCount(d)
                    /\ time1' = AdvancedNow(d)
               /\ onScreen' = Cleared(k)
               /\ hearts' = Erased(hearts, ClearAt(k))
               /\ stat' \in ImageReturnCode
               /\ lastPick' = k
               /\ lastBefore' = onScreen[k]
               /\ spritePick' = 0
               /\ pc' = "pm_top"
               /\ UNCHANGED <<xPos, yPos>>
          ELSE /\ \E c \in Candidates :
                    /\ xPos' = c[1]
                    /\ yPos' = c[2]
               /\ spritePick' = k
               /\ pc' = "pm_do"
               /\ stat' = NoCall
               /\ UNCHANGED <<clockVars, time1, onScreen, lastPick, lastBefore,
                              hearts>>
  /\ raisedInSearch' = FALSE
  /\ UNCHANGED <<attached, changeButtonState, loopVars, dirLen, dirVars,
                 posXArr, posYArr, collision, i, rerolled, errorShown,
                 isrHist, changes>>

\* Mutant of PMDo: the retry iteration starts without the flag check.
PMDo_NoFlagCheck ==
  /\ pc = "pm_do"
  /\ collision' = FALSE
  /\ unseen' = SeenAfterRead
  /\ i' = NextOnScreen(0)
  /\ pc' = ForOrWhile(NextOnScreen(0))
  /\ UNCHANGED <<stat, hearts, clockVars, attached, changeButtonState, loopVars, dirLen,
                 dirVars, slotVars, time1, spritePick, xPos, yPos,
                 raisedInSearch, lastPick, lastBefore, rerolled, errorShown,
                 raises, lastRaise, burst, changes>>

\* Lines 176-180: the top of one retry iteration.
PMDo ==
  /\ pc = "pm_do"
  /\ collision' = FALSE
  /\ unseen' = SeenAfterRead
  /\ IF changeButtonState
     THEN /\ pc' = "pm_ret"
          /\ UNCHANGED i
     ELSE /\ i' = NextOnScreen(0)
          /\ pc' = ForOrWhile(NextOnScreen(0))
  /\ UNCHANGED <<stat, hearts, clockVars, attached, changeButtonState, loopVars, dirLen,
                 dirVars, slotVars, time1, spritePick, xPos, yPos,
                 raisedInSearch, lastPick, lastBefore, rerolled, errorShown,
                 raises, lastRaise, burst, changes>>

\* Mutant of PMFor: the re-roll does not set collision, so the scan is not repeated.
PMFor_NoRescan ==
  /\ pc = "pm_for"
  /\ IF onScreen[i] /\ Near(xPos, posXArr[i]) /\ Near(yPos, posYArr[i])
     THEN /\ collision' = collision
          /\ rerolled' = TRUE
          /\ \E c \in Candidates :
               /\ xPos' = c[1]
               /\ yPos' = c[2]
     ELSE UNCHANGED <<collision, xPos, yPos, rerolled>>
  /\ i' = NextOnScreen(i + 1)
  /\ pc' = ForOrWhile(NextOnScreen(i + 1))
  /\ UNCHANGED <<stat, hearts, clockVars, attached, changeButtonState, loopVars, dirLen,
                 dirVars, slotVars, time1, spritePick, raisedInSearch,
                 lastPick, lastBefore, errorShown, isrHist, changes>>

\* Lines 180-195: the iteration of the scan for slot i, which is on the screen.
PMFor ==
  /\ pc = "pm_for"
  /\ IF onScreen[i] /\ Near(xPos, posXArr[i]) /\ Near(yPos, posYArr[i])
     THEN /\ collision' = TRUE
          /\ rerolled' = TRUE
          /\ \E c \in Candidates :
               /\ xPos' = c[1]
               /\ yPos' = c[2]
     ELSE UNCHANGED <<collision, xPos, yPos, rerolled>>
  /\ i' = NextOnScreen(i + 1)
  /\ pc' = ForOrWhile(NextOnScreen(i + 1))
  /\ UNCHANGED <<stat, hearts, clockVars, attached, changeButtonState, loopVars, dirLen,
                 dirVars, slotVars, time1, spritePick, raisedInSearch,
                 lastPick, lastBefore, errorShown, isrHist, changes>>

\* Mutant of Stored: the position is written one slot further.
Stored_NextSlot(arr, k, v) == [arr EXCEPT ![(k + 1) % maxSprites] = v]

\* Lines 198-199: posXArr[spritePick] = xPos, posYArr[spritePick] = yPos.
Stored(arr, k, v) == [arr EXCEPT ![k] = v]

\* Lines 196-206: while(collision); else store the position, show the slot,
\* draw the heart and refresh time1.
PMWhile ==
  /\ pc = "pm_while"
  /\ IF collision
     THEN /\ pc' = "pm_do"
          /\ UNCHANGED <<clockVars, slotVars, time1, tickVars, lastPick,
                         lastBefore, raisedInSearch, rerolled, hearts, stat>>
     ELSE /\ posXArr' = Stored(posXArr, spritePick, xPos)
          /\ posYArr' = Stored(posYArr, spritePick, yPos)
          /\ onScreen' = Loaded(spritePick)
          /\ hearts' = HeartDrawn(hearts, <<xPos, yPos>>)
          /\ stat' \in ImageReturnCode
          /\ \E d \in DrawTimes :
               /\ CanAdvance(d)
               /\ now' = AdvancedNow(d)
               /\ advances' = AdvancedCount(d)
               /\ time1' = AdvancedNow(d)
          /\ lastPick' = spritePick
          /\ lastBefore' = onScreen[spritePick]
          /\ raisedInSearch' = FALSE
          /\ rerolled' = FALSE
          /\ spritePick' = 0
          /\ xPos' = 0
          /\ yPos' = 0
          /\ collision' = FALSE
          /\ i' = 0
          /\ pc' = "pm_top"
  /\ UNCHANGED <<attached, changeButtonState, loopVars, dirLen, dirVars,
                 errorShown, isrHist, changes>>

\* patternMode() returns to loop(); its locals end.
PMReturn ==
  /\ pc = "pm_ret"
  /\ pc' = "loop"
  /\ posXArr' = ZeroArr
  /\ posYArr' = ZeroArr
  /\ onScreen' = FalseArr
  /\ time1' = 0
  /\ spritePick' = 0
  /\ xPos' = 0
  /\ yPos' = 0
  /\ collision' = FALSE
  /\ i' = 0
  /\ raisedInSearch' = FALSE
  /\ lastPick' = -1
  /\ lastBefore' = FALSE
  /\ rerolled' = FALSE
  /\ UNCHANGED <<stat, hearts, clockVars, attached, changeButtonState, loopVars, dirLen,
                 dirVars, errorShown, isrHist, changes>>

\* =================================================================== claims
Abs(n) == IF n < 0 THEN -n ELSE n
SearchPcs == {"pm_do", "pm_for", "pm_while"}
OnScreenSlots == {s \in Slots : onScreen[s]}

\* C1: in every state, any two distinct slots that are on the screen are more
\* than spriteSize+1 apart in x or more than spriteSize+1 apart in y.
C1_NoOverlap ==
  \A a \in Slots : \A b \in Slots :
    (a # b /\ onScreen[a] /\ onScreen[b]) =>
      \/ Abs(posXArr[a] - posXArr[b]) > spriteSize + 1
      \/ Abs(posYArr[a] - posYArr[b]) > spriteSize + 1

\* C1, its case: a scan has ended whose candidate was re-rolled in the middle
\* of the scan, and the re-rolled candidate overlaps a slot on the screen.
C1_RerolledStillOverlaps ==
  /\ pc = "pm_while"
  /\ collision
  /\ \E s \in Slots :
       /\ onScreen[s]
       /\ Abs(xPos - posXArr[s]) <= spriteSize + 1
       /\ Abs(yPos - posYArr[s]) <= spriteSize + 1

\* C2 (as claimed): two raises of the flag less than 50 ms apart result in one
\* mode transition, never in a second one, whatever the main context does
\* between the raises and its next debounce test.
C2_DebounceOneTransition == burst => sinceOlder <= 1

\* C3 (as claimed): at every poll of a wait of displayAllImagesDir, between
\* entries and after the last entry, a raised flag makes the function return
\* at that poll, and no further image is displayed.
C3_AbortAtEveryPoll ==
  [][(pc \in {"ss_poll", "ss_last"} /\ changeButtonState /\ pc' # pc)
       => (pc' = "ss_ret" /\ shown' = shown)]_vars

\* C4 (as claimed): once the flag is raised while the collision search of a
\* tick is active, the tick mutates no slot and leaves the search only by
\* returning.
C4_RaiseInSearchNeverMutates ==
  [][(raisedInSearch /\ pc \in SearchPcs)
       => (slotVars' = slotVars /\ pc' \in SearchPcs \cup {"pm_ret"})]_vars

\* C4 (amended): a flag that is raised when the check at the top of a retry
\* iteration runs makes the tick return there with posXArr, posYArr and
\* onScreen unchanged.  A raise during the search leaves the flag raised, so
\* the next such check returns; before that check the slots change only if
\* the running scan ends without a collision, and then only the selected slot
\* is stored and shown; patternMode then returns at its next flag check.
C4_AbortAtCheck ==
  /\ [][(pc = "pm_do" /\ changeButtonState /\ pc' # pc)
          => (pc' = "pm_ret" /\ slotVars' = slotVars)]_vars
  /\ []((raisedInSearch /\ pc \in SearchPcs) => changeButtonState)
  /\ [][(raisedInSearch /\ pc \in SearchPcs /\ slotVars' # slotVars)
          => /\ pc = "pm_while" /\ ~collision
             /\ posXArr' = [posXArr EXCEPT ![spritePick] = xPos]
             /\ posYArr' = [posYArr EXCEPT ![spritePick] = yPos]
             /\ onScreen' = [onScreen EXCEPT ![spritePick] = TRUE]]_vars
  /\ [][(pc = "pm_check" /\ changeButtonState /\ pc' # pc)
          => (pc' = "pm_ret" /\ slotVars' = slotVars)]_vars

\* C4, its case: the tick has returned after a raise during its search, with
\* a slot on the screen.
C4_ReturnedFromSearch ==
  pc = "pm_ret" /\ raisedInSearch /\ OnScreenSlots # {}

\* C5 (as claimed): a raise that no read of the main context has seen yet
\* leaves the flag raised: loop() never resets it before it is seen.
C5_NoRaiseLost == unseen => changeButtonState

\* C6: the debounce test of loop() accepts exactly when the flag is raised and
\* at least 50 ms have passed since prevStateChange; an accepted test moves
\* currentState one step round-robin, nothing else changes it; currentState
\* is 0 or 1 and the default branch of the switch is never taken.
C6_TransitionRule ==
  /\ [][(pc = "loop" /\ pc' # pc)
          => /\ pc' \in {"accept", "reject"}
             /\ (pc' = "accept") <=>
                  (changeButtonState /\ now - prevStateChange >= 50)]_vars
  /\ [][(pc = "accept" /\ pc' # pc)
          => currentState' = (currentState + 1) % 2]_vars
  /\ [][(pc # "accept") => currentState' = currentState]_vars
  /\ [](currentState \in {0, 1} /\ pc # "ss_default")

\* C6, its case: a second accepted transition has wrapped currentState to 0.
C6_Wrapped == pc = "switch" /\ currentState = 0 /\ sinceOlder = 2

\* C7: after a failed mount the error message has been rendered once, the
\* main context stays in the idle loop, no mode function is entered and
\* currentState and the flag keep their initial values.
C7_ErrorTerminal ==
  /\ [](errorShown > 0 =>
          /\ errorShown = 1 /\ pc = "halt" /\ currentState = 0
          /\ ~attached /\ ~changeButtonState /\ raises = 0)
  /\ [][(pc = "halt") =>
          (pc' = "halt" /\ currentState' = currentState
             /\ errorShown' = errorShown)]_vars

\* C7, its case: the mount has failed and time has passed in the idle loop.
C7_Halted == pc = "halt" /\ errorShown = 1 /\ now > 0

\* C8: a completed tick flips the visibility of the selected slot and of no
\* other slot; when it selects the slot of the previous completed tick, that
\* slot is back at the visibility it had before the previous tick.
C8_Toggle ==
  [][(pc \in {"pm_pick", "pm_while"} /\ pc' = "pm_top")
       => /\ lastPick' \in Slots
          /\ \A s \in Slots :
               (onScreen'[s] # onScreen[s]) <=> (s = lastPick')
          /\ (lastPick = lastPick') => (onScreen'[lastPick'] = lastBefore)]_vars

\* C8, its case: a tick has cleared the slot that the tick before it showed.
C8_ShownThenCleared ==
  /\ pc = "pm_top"
  /\ lastPick \in Slots
  /\ lastBefore
  /\ ~onScreen[lastPick]
  /\ OnScreenSlots = {}

\* C9: every slot on the screen, and every candidate of a running search,
\* has 0 <= x < 208 and 0 <= y < 188, so the sprite ends above the message
\* sprite at y = 220.
C9_PlacementBounds ==
  /\ \A s \in Slots :
       onScreen[s] =>
         /\ 0 <= posXArr[s] /\ posXArr[s] < screenWidth - spriteSize
         /\ 0 <= posYArr[s]
         /\ posYArr[s] < screenLength - spriteSize - messageHeight
         /\ posYArr[s] + spriteSize <= messageY
  /\ (pc \in SearchPcs) =>
         /\ 0 <= xPos /\ xPos < screenWidth - spriteSize
         /\ 0 <= yPos /\ yPos < screenLength - spriteSize - messageHeight

\* C9, its case: a slot is on the screen at the largest x and y.
C9_AtTheCorner ==
  \E s \in Slots :
    /\ onScreen[s]
    /\ posXArr[s] = screenWidth - spriteSize - 1
    /\ posYArr[s] = screenLength - spriteSize - messageHeight - 1

\* C10: with the flag never raised, one run of displayAllImagesDir displays
\* entry 1 on entry without a wait, then the entries in cursor order, each
\* once, each no earlier than slideshowRefreshTime after the one before it,
\* and returns no earlier than slideshowRefreshTime after the last one.
C10_OrderAndTiming ==
  /\ [][(pc \in {"ss_open", "ss_default"} /\ pc' # pc)
          => shown' = << <<1, now>> >>]_vars
  /\ []((raises = 0) =>
          /\ Len(shown) <= dirLen
          /\ \A k \in 1 .. Len(shown) : shown[k][1] = k
          /\ \A k \in 1 .. (Len(shown) - 1) :
               shown[k + 1][2] - shown[k][2] >= 4000
          /\ (pc = "ss_ret") =>
               /\ Len(shown) = dirLen
               /\ now - shown[dirLen][2] >= 4000)

\* C10, its case: a run over more than one entry has returned, never raised.
C10_ReturnedAfterAll ==
  pc = "ss_ret" /\ raises = 0 /\ Len(shown) >= 2 /\ Len(shown) = dirLen

\* The iteration of the scan at slot i finds a collision and re-rolls the
\* candidate position (lines 183-190).
RerollNow ==
  /\ pc = "pm_for"
  /\ onScreen[i] /\ Near(xPos, posXArr[i]) /\ Near(yPos, posYArr[i])

\* C11: between any two consecutive re-rolls of the candidate position the
\* main context has yielded: a re-roll never happens while an earlier
\* re-roll has not yet been followed by a yield().
C11_YieldBetweenRerolls ==
  [][(RerollNow /\ i' # i) => ~rerolled]_vars

\* C12: every execution of the debounce step leaves changeButtonState false,
\* accepted or not; the flag becomes true again only by a raise of the
\* interrupt handler, and a transition is accepted only on a flag read as
\* true, so a rejected raise never causes a transition later.
C12_SingleTickEdge ==
  /\ [][(pc \in {"accept", "reject"} /\ pc' # pc)
          => (pc' = "switch" /\ ~changeButtonState')]_vars
  /\ [][(~changeButtonState /\ changeButtonState') => raises' = raises + 1]_vars
  /\ [][(pc = "loop" /\ pc' = "accept") => changeButtonState]_vars
  /\ [][(pc = "loop" /\ pc' = "accept") => sinceNewer = 0]_vars

\* C12, its case: the last raise was read as true less than debounceTime
\* after the accepted transition before it, was not accepted, and the flag
\* is false after the debounce step.
C12_RejectedAndCleared ==
  /\ pc = "switch"
  /\ raises >= 1
  /\ sinceOlder >= 1
  /\ sinceNewer = 0
  /\ ~unseen
  /\ ~changeButtonState
  /\ now - prevStateChange < debounceTime

PatternPcs ==
  {"pm_enter", "pm_msg", "pm_top", "pm_check", "pm_pick", "pm_do", "pm_for",
   "pm_while"}

\* C13: patternMode returns only from one of its two flag checks, having read
\* the flag as raised, and control leaves it in no other way; and whenever
\* the flag is raised while patternMode runs, patternMode returns, also when
\* every scan of the search finds a collision.
C13_PatternExit ==
  /\ [][(pc # "pm_ret" /\ pc' = "pm_ret")
          => (changeButtonState /\ pc \in {"pm_check", "pm_do"})]_vars
  /\ [][(pc \in PatternPcs /\ pc' # pc) => pc' \in PatternPcs \cup {"pm_ret"}]_vars
  /\ ((pc \in PatternPcs /\ changeButtonState) ~> (pc = "pm_ret"))

\* C13, its case: patternMode has returned from a search that was re-rolling.
C13_ReturnedWhileColliding ==
  pc = "pm_ret" /\ changeButtonState /\ rerolled /\ raisedInSearch

\* The variables of the program that the interrupt handler does not write.
mainVars ==
  <<pc, clockVars, attached, loopVars, dirLen, entry, time_1, slotVars, time1,
    tickVars, errorShown>>

\* C15: currentState and prevStateChange change only in the then-branch of
\* the debounce step; a step of the interrupt handler sets changeButtonState
\* to true and writes nothing else; and changeButtonState is written by the
\* handler and by the debounce step only, so displayAllImagesDir and
\* patternMode never write it.
C15_FrameOfMode ==
  /\ [][(loopVars' # loopVars) => (pc = "accept" /\ pc' = "switch")]_vars
  /\ [][(raises' # raises) => (changeButtonState' /\ mainVars' = mainVars)]_vars
  /\ [][(changeButtonState' # changeButtonState)
          => (raises' # raises \/ pc \in {"accept", "reject"})]_vars

\* C15, its case: patternMode has seen a raise at its check of line 155 and
\* returns with the flag still raised and the mode as the last accepted
\* transition left it.
C15_RaisedInsideMode ==
  /\ pc = "pm_ret"
  /\ changeButtonState
  /\ ~raisedInSearch
  /\ currentState = 1
  /\ prevStateChange > 0

\* A step that completes a tick: the clear branch, or the store after a scan
\* without collision.
TickEnds == pc \in {"pm_pick", "pm_while"} /\ pc' = "pm_top"

\* C16: a completed tick flips the visibility of exactly one slot and leaves
\* the position and visibility of every other slot as they were; the position
\* of that slot changes only when it becomes visible; no other step of a tick
\* changes a slot, so a tick that ends at the return of line 178 changes none.
C16_FrameOfTick ==
  /\ [][TickEnds =>
          \E k \in Slots :
            /\ onScreen'[k] # onScreen[k]
            /\ \A s \in Slots \ {k} :
                 /\ onScreen'[s] = onScreen[s]
                 /\ posXArr'[s] = posXArr[s]
                 /\ posYArr'[s] = posYArr[s]
            /\ (posXArr'[k] # posXArr[k] \/ posYArr'[k] # posYArr[k])
                 => onScreen'[k]]_vars
  /\ [][(pc \in {"pm_pick", "pm_do", "pm_for", "pm_while"} /\ ~TickEnds)
          => slotVars' = slotVars]_vars

\* C16, its case: a tick has shown a slot while another slot was visible.
C16_ShownBesideAnother ==
  /\ pc = "pm_top"
  /\ lastPick \in Slots
  /\ ~lastBefore
  /\ onScreen[lastPick]
  /\ \E s \in Slots \ {lastPick} :
       onScreen[s] /\ posXArr[s] # posXArr[lastPick]

\* The positions of the slots that are visible.
VisiblePositions == {<<posXArr[s], posYArr[s]>> : s \in OnScreenSlots}

Failed == stat \notin {NoCall, "IMAGE_SUCCESS"}

\* C14: a step whose image call returns an error does what the same step
\* does on success: the slideshow records the entry as attempted, moves the
\* cursor on and restarts its wait; a tick of patternMode updates the slot and
\* time1 and goes back to the top of its loop; the mode variables and the
\* error screen are untouched, and control is never at a return or in the
\* terminal state because of it.
C14_ImageErrorsAbsorbed ==
  /\ [][(Failed' /\ pc \in {"ss_open", "ss_default"} /\ pc' # pc) =>
          /\ shown' = << <<1, now>> >>
          /\ entry' = 2
          /\ time_1' = now
          /\ pc' = WhileEntry(2)]_vars
  /\ [][(Failed' /\ pc = "ss_poll" /\ pc' # pc) =>
          /\ shown' = Append(shown, <<entry, now>>)
          /\ entry' = entry + 1
          /\ time_1' = now'
          /\ pc' = "ss_yield"]_vars
  /\ [][(Failed' /\ pc \in {"pm_msg", "pm_pick", "pm_while"} /\ pc' # pc) =>
          /\ pc' = "pm_top"
          /\ time1' = now'
          /\ (pc = "pm_msg") => (onScreen' = FalseArr)
          /\ (pc = "pm_pick") =>
               /\ onScreen[lastPick']
               /\ onScreen' = [onScreen EXCEPT ![lastPick'] = FALSE]
               /\ posXArr' = posXArr /\ posYArr' = posYArr
          /\ (pc = "pm_while") =>
               /\ onScreen' = [onScreen EXCEPT ![spritePick] = TRUE]
               /\ posXArr' = [posXArr EXCEPT ![spritePick] = xPos]
               /\ posYArr' = [posYArr EXCEPT ![spritePick] = yPos]]_vars
  /\ [][(Failed' /\ pc' # pc) =>
          /\ loopVars' = loopVars
          /\ errorShown' = errorShown
          /\ changeButtonState' = changeButtonState]_vars
  /\ [](Failed => pc \in {"ss_poll", "ss_last", "ss_yield", "pm_top"})

\* C14, its case: the second entry of the directory failed to draw and the
\* slideshow has moved its cursor past it.
C14_FailedAndWentOn ==
  pc = "ss_yield" /\ Failed /\ entry = 3 /\ Len(shown) = 2

\* The candidate (x, y) collides with no visible slot (lines 181-186).
FreeOf(x, y) ==
  \A s \in Slots :
    onScreen[s] => ~(Near(x, posXArr[s]) /\ Near(y, posYArr[s]))

\* Positions 2 * (spriteSize + 1) + 1 apart: no sprite is within
\* spriteSize + 1 of two of them in the same axis.
GridStep == 2 * (spriteSize + 1) + 1
GridX == {x \in random(xBorderSprite) : x % GridStep = 0}
GridY == {y \in random(yBorderSprite) : y % GridStep = 0}
GridLemma ==
  /\ Cardinality(GridX \X GridY) > maxSprites - 1
  /\ \A x \in random(xBorderSprite) : Cardinality({g \in GridX : Near(g, x)}) <= 1
  /\ \A y \in random(yBorderSprite) : Cardinality({g \in GridY : Near(g, y)}) <= 1

\* C18: while the search runs the selected slot is invisible, so at most
\* maxSprites - 1 slots are visible; each of them, wherever it is, collides
\* with at most one of the more than maxSprites - 1 grid positions, so an
\* in-bounds candidate free of all of them exists, and random() can draw one;
\* with fair draws the search stores a position unless the flag is raised.
C18_SearchCanSucceed ==
  /\ [](GridLemma)
  /\ []((pc \in SearchPcs) =>
          /\ ~onScreen[spritePick]
          /\ Cardinality(OnScreenSlots) <= maxSprites - 1
          /\ \E g \in GridX \X GridY : FreeOf(g[1], g[2])
          /\ \E c \in Candidates : FreeOf(c[1], c[2]))
  /\ ((pc \in SearchPcs) ~> (pc = "pm_top" \/ changeButtonState))

\* C18, its case: a search beside a visible slot has re-rolled and its scan
\* has ended without a collision; the position is about to be stored.
C18_FoundAfterReroll ==
  /\ pc = "pm_while"
  /\ ~collision
  /\ rerolled
  /\ ~changeButtonState
  /\ OnScreenSlots # {}

Init ==
  /\ pc = "setup"
  /\ now = 0
  /\ advances = 0
  /\ attached = FALSE
  /\ changeButtonState = FALSE
  /\ currentState = 0
  /\ prevStateChange = 0
  /\ dirLen \in 1 .. MaxEntries
  /\ entry = 0
  /\ time_1 = 0
  /\ posXArr = ZeroArr
  /\ posYArr = ZeroArr
  /\ onScreen = FalseArr
  /\ time1 = 0
  /\ spritePick = 0
  /\ xPos = 0
  /\ yPos = 0
  /\ collision = FALSE
  /\ i = 0
  /\ errorShown = 0
  /\ shown = <<>>
  /\ raises = 0
  /\ lastRaise = 0
  /\ burst = FALSE
  /\ sinceOlder = 0
  /\ sinceNewer = 0
  /\ unseen = FALSE
  /\ raisedInSearch = FALSE
  /\ lastPick = -1
  /\ lastBefore = FALSE
  /\ rerolled = FALSE
  /\ hearts = {}
  /\ stat = NoCall

Next ==
  \/ modeChangeInterupt
  \/ Setup
  \/ HaltYield
  \/ LoopTest
  \/ LoopAccept
  \/ LoopReject
  \/ LoopSwitch
  \/ SSOpen
  \/ SSPoll
  \/ SSYield
  \/ SSLast
  \/ SSLastYield
  \/ SSReturn
  \/ PMEnter
  \/ PMMessage
  \/ PMYield
  \/ PMCheck
  \/ PMPick
  \/ PMDo
  \/ PMFor
  \/ PMWhile
  \/ PMReturn

Spec == Init /\ [][Next]_vars

\* The steps of the main context: everything but the interrupt handler.
MainStep ==
  \/ Setup
  \/ HaltYield
  \/ LoopTest
  \/ LoopAccept
  \/ LoopReject
  \/ LoopSwitch
  \/ SSOpen
  \/ SSPoll
  \/ SSYield
  \/ SSLast
  \/ SSLastYield
  \/ SSReturn
  \/ PMEnter
  \/ PMMessage
  \/ PMYield
  \/ PMCheck
  \/ PMPick
  \/ PMDo
  \/ PMFor
  \/ PMWhile
  \/ PMReturn

\* The processor runs the main context whenever the handler is not running.
SpecFair == Spec /\ WF_vars(MainStep)

\* A scan step that leaves a candidate free of every visible slot: random()
\* is fair, so a position that can be drawn again and again is drawn.
FreeReroll == PMFor /\ FreeOf(xPos', yPos')
SpecFairDraws == SpecFair /\ SF_vars(FreeReroll)

\* The program at the top of loop(), WrapLead milliseconds before millis()
\* wraps from 2^32 - 1 to 0: setup() is long over, the mode is either one and
\* the last accepted transition is of this instant.
\* The run of the clock from the boot up to this instant counts as one of the
\* MaxAdvances.
WrapLead == debounceTime \div 2
InitWrap ==
  /\ pc = "loop"
  /\ now = 0 - WrapLead
  /\ advances = 1
  /\ attached = TRUE
  /\ changeButtonState = FALSE
  /\ currentState \in 0 .. (maxStates - 1)
  /\ prevStateChange = now
  /\ dirLen \in 1 .. MaxEntries
  /\ entry = 0
  /\ time_1 = 0
  /\ posXArr = ZeroArr
  /\ posYArr = ZeroArr
  /\ onScreen = FalseArr
  /\ time1 = 0
  /\ spritePick = 0
  /\ xPos = 0
  /\ yPos = 0
  /\ collision = FALSE
  /\ i = 0
  /\ errorShown = 0
  /\ shown = <<>>
  /\ raises = 0
  /\ lastRaise = 0
  /\ burst = FALSE
  /\ sinceOlder = 0
  /\ sinceNewer = 0
  /\ unseen = FALSE
  /\ raisedInSearch = FALSE
  /\ lastPick = -1
  /\ lastBefore = FALSE
  /\ rerolled = FALSE
  /\ hearts = {}
  /\ stat = NoCall

\* The steps after setup().
LoopNext ==
  \/ modeChangeInterupt
  \/ LoopTest
  \/ LoopAccept
  \/ LoopReject
  \/ LoopSwitch
  \/ SSOpen
  \/ SSPoll
  \/ SSYield
  \/ SSLast
  \/ SSLastYield
  \/ SSReturn
  \/ PMEnter
  \/ PMMessage
  \/ PMYield
  \/ PMCheck
  \/ PMPick
  \/ PMDo
  \/ PMFor
  \/ PMWhile
  \/ PMReturn

SpecWrap == InitWrap /\ [][LoopNext]_vars
====
